---- MODULE Spec2Model ----
(***************************************************************************)
(* Powernode/segmentation: the upload pipeline (services.process_upload),  *)
(* its two tables (OrderRecord, UserClusterProfile), the readers of the    *)
(* profile table (views.download_clusters, views.charts_view), the         *)
(* automatic choice of K (services.choose_k_auto), the cluster summaries   *)
(* (services.make_cluster_tags), and the loader and the feature builder    *)
(* (services.load_csv_to_df, services.build_user_features) on their own.   *)
(*                                                                         *)
(* Spec   sequential uploads and a concurrent reader of the profiles       *)
(* SpecK  a stand-alone choose_k_auto call                                 *)
(* SpecU  one upload of sample lines on an empty database                  *)
(* SpecF  a stand-alone load_csv_to_df / build_user_features call          *)
(* SpecV  an upload posted to upload_view and the redirect followed        *)
(* SpecC  two process_upload calls whose steps interleave                  *)
(* SpecS  Fenqu/segmentation: imports of users and the rule, RFM and       *)
(*        cluster segmentation functions applied to two tasks              *)
(*                                                                         *)
(* Amounts are integers (hundredths), times are whole days.  A mean is     *)
(* kept exact, as the pair of its sum and its count.  Validity scores      *)
(* returned by scikit-learn are ranks in ScoreValues; None is the absent   *)
(* score.                                                                  *)
(***************************************************************************)
EXTENDS Integers, Sequences, FiniteSets, TLC

(***************************************************************************)
(* Bounds of the exploration                                               *)
(***************************************************************************)
MaxRuns == 2        \* process_upload calls in one behaviour
MaxN == 4           \* entities handed to a stand-alone choose_k_auto call
MaxKArg == 3        \* largest ordinary k_min / k_max / cluster_count argument
MaxApplies == 3     \* calls of the segmentation functions in one behaviour

(***************************************************************************)
(* Program constants                                                       *)
(***************************************************************************)
None == 0
KMinFloor == 2
KMaxDefault == 8
KCap == 10
ClusterCountDefault == 4

Procs == {1, 2}
Users == {"U001", "U002"}
OrderIds == {"ORD1001", "ORD1002"}
NaN == -1
NaT == -1
Amounts == {NaN, 5900}

REQUIRED_COLUMNS ==
    {"user_id", "order_id", "order_time", "amount", "category",
     "is_promo", "refund_flag", "device", "channel"}

\* Headers an uploaded CSV may carry: the full one, and one lacking a column.
Headers == {REQUIRED_COLUMNS, REQUIRED_COLUMNS \ {"amount"}}

\* One CSV data line, after pd.to_datetime(errors="coerce") of its order_time
\* and pd.to_numeric(errors="coerce") of its amount.  An empty text cell is
\* "", an empty or non-numeric flag cell is NaN.
CsvRows ==
    [user_id : Users, order_id : OrderIds, order_time : {1}, amount : Amounts,
     category : {"Home"}, is_promo : {0}, refund_flag : {0},
     device : {"Mobile"}, channel : {"App"}]

CsvBodies == {<<>>} \cup {<<r>> : r \in CsvRows}
                    \cup {<<r, s>> : r \in CsvRows, s \in CsvRows}

Files == [columns : Headers, rows : CsvBodies]

Max(a, b) == IF a >= b THEN a ELSE b
Min(a, b) == IF a <= b THEN a ELSE b
Range(s) == {s[i] : i \in 1..Len(s)}

(***************************************************************************)
(* load_csv_to_df                                                          *)
(***************************************************************************)
MissingColumns(file) == REQUIRED_COLUMNS \ file.columns

\* Series.astype(int) raises when a cell is NaN or is not a number.
AsTypeIntRaises(rows) ==
    \E i \in 1..Len(rows) : rows[i].is_promo = NaN \/ rows[i].refund_flag = NaN

\* df.dropna(subset=[user_id, order_id, order_time, amount])
DropNa(rows) ==
    SelectSeq(rows, LAMBDA r : /\ r.user_id # ""
                               /\ r.order_id # ""
                               /\ r.order_time # NaT
                               /\ r.amount # NaN)

\* A load that forgets the df.empty test.
load_csv_to_df_noEmptyCheck(file) ==
    IF MissingColumns(file) # {}
    THEN [ok |-> FALSE, error |-> "missing_columns", df |-> <<>>]
    ELSE IF AsTypeIntRaises(file.rows)
    THEN [ok |-> FALSE, error |-> "astype_value_error", df |-> <<>>]
    ELSE [ok |-> TRUE, error |-> "none", df |-> DropNa(file.rows)]

load_csv_to_df(file) ==
    IF MissingColumns(file) # {}
    THEN [ok |-> FALSE, error |-> "missing_columns", df |-> <<>>]
    ELSE IF AsTypeIntRaises(file.rows)
    THEN [ok |-> FALSE, error |-> "astype_value_error", df |-> <<>>]
    ELSE IF DropNa(file.rows) = <<>>
         THEN [ok |-> FALSE, error |-> "empty", df |-> <<>>]
         ELSE [ok |-> TRUE, error |-> "none", df |-> DropNa(file.rows)]

(***************************************************************************)
(* persist_orders: bulk_create(records, ignore_conflicts=True) against the *)
(* unique order_id column                                                  *)
(***************************************************************************)
OrderIdsOf(table) == {o.order_id : o \in table}

RECURSIVE InsertIgnore(_, _)
InsertIgnore(table, rows) ==
    IF rows = <<>> THEN table
    ELSE IF Head(rows).order_id \in OrderIdsOf(table)
         THEN InsertIgnore(table, Tail(rows))
         ELSE InsertIgnore(table \cup {Head(rows)}, Tail(rows))

(***************************************************************************)
(* build_user_features: one row per user_id                                *)
(***************************************************************************)
RECURSIVE SumAmount(_, _)
SumAmount(rows, u) ==
    IF rows = <<>> THEN 0
    ELSE (IF Head(rows).user_id = u THEN Head(rows).amount ELSE 0)
         + SumAmount(Tail(rows), u)

\* A count of the distinct order ids of the user (nunique for count).
CountOrders_nunique(rows, u) ==
    Cardinality({r.order_id : r \in {x \in Range(rows) : x.user_id = u}})

CountOrders(rows, u) == Len(SelectSeq(rows, LAMBDA r : r.user_id = u))

UsersOf(rows) == {r.user_id : r \in Range(rows)}

RECURSIVE SumFlag(_, _, _)
SumFlag(rows, u, col) ==
    IF rows = <<>> THEN 0
    ELSE (IF Head(rows).user_id = u THEN Head(rows)[col] ELSE 0)
         + SumFlag(Tail(rows), u, col)

\* agg "max" over the order times of one user
LastOrderTime(rows, u) ==
    CHOOSE t \in {r.order_time : r \in {x \in Range(rows) : x.user_id = u}} :
        \A r \in Range(rows) : r.user_id = u => r.order_time <= t

\* The difference taken the other way round.
RecencyDays_reversed(now, last_order_time) == last_order_time - now

\* (now - last_order_time) in days
RecencyDays(now, last_order_time) == now - last_order_time

\* agg "mean": the sum over the count
Mean(sum, count) == [num |-> sum, den |-> count]

\* The string cells of column col in the rows of user u, in row order
\* (x for x in series if isinstance(x, str)); an empty cell is NaN, no string.
StringsOf(rows, u, col) ==
    LET mine == SelectSeq(rows, LAMBDA r : r.user_id = u)
        cells == [i \in 1..Len(mine) |-> mine[i][col]]
    IN  SelectSeq(cells, LAMBDA x : x # "")

\* The keys of Counter(seq), in insertion order.
RECURSIVE CounterKeys(_)
CounterKeys(seq) ==
    IF seq = <<>> THEN <<>>
    ELSE <<Head(seq)>>
         \o CounterKeys(SelectSeq(Tail(seq), LAMBDA x : x # Head(seq)))

\* The counts of Counter(seq), in the order of its keys.
CounterCounts(seq) ==
    LET keys == CounterKeys(seq)
    IN  [i \in 1..Len(keys) |-> Len(SelectSeq(seq, LAMBDA x : x = keys[i]))]

\* A mode that takes the last of the most frequent keys.
top_value_lastOfTies(rows, u, col) ==
    LET strs == StringsOf(rows, u, col)
        keys == CounterKeys(strs)
        counts == CounterCounts(strs)
    IN  IF strs = <<>> THEN ""
        ELSE keys[CHOOSE i \in 1..Len(keys) :
                     /\ \A j \in 1..Len(keys) : counts[j] <= counts[i]
                     /\ \A j \in (i + 1)..Len(keys) : counts[j] < counts[i]]

\* cnt.most_common(1)[0][0] if cnt else "": most_common(1) is max() over the
\* items by count, which returns the first maximal item.
top_value(rows, u, col) ==
    LET strs == StringsOf(rows, u, col)
        keys == CounterKeys(strs)
        counts == CounterCounts(strs)
    IN  IF strs = <<>> THEN ""
        ELSE keys[CHOOSE i \in 1..Len(keys) :
                     /\ \A j \in 1..Len(keys) : counts[j] <= counts[i]
                     /\ \A j \in 1..(i - 1) : counts[j] < counts[i]]

\* `now` is the clock reading taken at the top of the function.
build_user_features(rows, now) ==
    {[user_id |-> u,
      total_amount |-> SumAmount(rows, u),
      order_count |-> CountOrders(rows, u),
      avg_amount |-> Mean(SumAmount(rows, u), CountOrders(rows, u)),
      promo_ratio |-> Mean(SumFlag(rows, u, "is_promo"), CountOrders(rows, u)),
      refund_ratio |-> Mean(SumFlag(rows, u, "refund_flag"), CountOrders(rows, u)),
      last_order_time |-> LastOrderTime(rows, u),
      recency_days |-> RecencyDays(now, LastOrderTime(rows, u)),
      top_category |-> top_value(rows, u, "category"),
      top_channel |-> top_value(rows, u, "channel"),
      top_device |-> top_value(rows, u, "device")] :
        u \in UsersOf(rows)}

(***************************************************************************)
(* run_kmeans: KMeans(n_clusters, random_state=42).fit_predict.  The fit   *)
(* raises ValueError unless 1 <= n_clusters <= n_samples.  With at least   *)
(* n_clusters distinct points every cluster id is used; otherwise any      *)
(* assignment into 0..n_clusters-1 may come back.                          *)
(***************************************************************************)
\* A fit that also refuses n_clusters = n_samples.
KMeansAccepts_belowSamples(n_samples, n_clusters) ==
    n_clusters >= 1 /\ n_clusters <= n_samples - 1

KMeansAccepts(n_samples, n_clusters) ==
    n_clusters >= 1 /\ n_clusters <= n_samples

\* The rows of data[numeric_cols].
Vectors(feats) ==
    {<<f.total_amount, f.order_count, f.avg_amount, f.promo_ratio,
       f.refund_ratio, f.recency_days>> : f \in feats}

\* A fit that may leave a cluster empty whatever the points are.
KMeansLabelings_mayLeaveEmpty(feats, n_clusters) ==
    [{f.user_id : f \in feats} -> 0..(n_clusters - 1)]

KMeansLabelings(feats, n_clusters) ==
    LET ids == {f.user_id : f \in feats}
        all == [ids -> 0..(n_clusters - 1)]
    IN  IF Cardinality(Vectors(feats)) >= n_clusters
        THEN {l \in all : {l[u] : u \in ids} = 0..(n_clusters - 1)}
        ELSE all

\* Cluster ids counted from 1.
run_kmeans_oneBased(feats, labels) ==
    {[user_id |-> f.user_id,
      total_amount |-> f.total_amount,
      order_count |-> f.order_count,
      avg_amount |-> f.avg_amount,
      promo_ratio |-> f.promo_ratio,
      refund_ratio |-> f.refund_ratio,
      last_order_time |-> f.last_order_time,
      recency_days |-> f.recency_days,
      top_category |-> f.top_category,
      top_channel |-> f.top_channel,
      top_device |-> f.top_device,
      cluster_id |-> labels[f.user_id] + 1] : f \in feats}

run_kmeans(feats, labels) ==
    {[user_id |-> f.user_id,
      total_amount |-> f.total_amount,
      order_count |-> f.order_count,
      avg_amount |-> f.avg_amount,
      promo_ratio |-> f.promo_ratio,
      refund_ratio |-> f.refund_ratio,
      last_order_time |-> f.last_order_time,
      recency_days |-> f.recency_days,
      top_category |-> f.top_category,
      top_channel |-> f.top_channel,
      top_device |-> f.top_device,
      cluster_id |-> labels[f.user_id]] : f \in feats}

(***************************************************************************)
(* choose_k_auto                                                           *)
(***************************************************************************)
\* `k_min or 2`, `k_max or 8`: a falsy argument takes the default.
OrDefault(arg, default) == IF arg = 0 THEN default ELSE arg

\* A lower end that ignores the argument.
effective_k_min_floorOnly(k_min) == KMinFloor

effective_k_min(k_min) == Max(KMinFloor, OrDefault(k_min, KMinFloor))

effective_k_max(n_samples, k_min, k_max) ==
    Max(effective_k_min(k_min),
        Min(Min(OrDefault(k_max, KMaxDefault), n_samples - 1), KCap))

ScoreValues == {1, 2}
OptionalScore == {None} \cup ScoreValues

\* What one fitted candidate may yield.  silhouette_score, calinski_harabasz_score
\* and davies_bouldin_score raise unless 2 <= number of labels <= n_samples - 1,
\* which needs 3 samples; each call also sits in its own try/except, so each
\* may be absent on its own.  CH and DBI are computed only in multi-metric mode.
Metrics(multi_metric, n_samples) ==
    [inertia : ScoreValues,
     silhouette : IF n_samples >= 3 THEN OptionalScore ELSE {None},
     ch : IF multi_metric /\ n_samples >= 3 THEN OptionalScore ELSE {None},
     dbi : IF multi_metric /\ n_samples >= 3 THEN OptionalScore ELSE {None}]

ScoreOf(k, m) ==
    [k |-> k, inertia |-> m.inertia, silhouette |-> m.silhouette,
     ch |-> m.ch, dbi |-> m.dbi]

\* Python max(list, key=...) / min(list, key=...) return the first extremal
\* item: its position, given the list of keys.
FirstMax(keys) ==
    CHOOSE i \in 1..Len(keys) :
        /\ \A j \in 1..Len(keys) : keys[j] <= keys[i]
        /\ \A j \in 1..(i - 1) : keys[j] < keys[i]

FirstMin(keys) ==
    CHOOSE i \in 1..Len(keys) :
        /\ \A j \in 1..Len(keys) : keys[j] >= keys[i]
        /\ \A j \in 1..(i - 1) : keys[j] > keys[i]

SilOf(seq) == [i \in 1..Len(seq) |-> seq[i].silhouette]
ChOf(seq) == [i \in 1..Len(seq) |-> seq[i].ch]
DbiOf(seq) == [i \in 1..Len(seq) |-> seq[i].dbi]
InertiaOf(seq) == [i \in 1..Len(seq) |-> seq[i].inertia]

\* pick_best taking the last of equal silhouettes (>= in place of >).
pick_best_lastOfTies(scores, multi_metric) ==
    LET valid_sil == SelectSeq(scores, LAMBDA s : s.silhouette # None)
        valid_ch == SelectSeq(scores, LAMBDA s : s.ch # None)
        valid_dbi == SelectSeq(scores, LAMBDA s : s.dbi # None)
        LastMax(seq) ==
            seq[CHOOSE i \in 1..Len(seq) :
                    /\ \A j \in 1..Len(seq) : seq[j].silhouette <= seq[i].silhouette
                    /\ \A j \in (i + 1)..Len(seq) :
                          seq[j].silhouette < seq[i].silhouette]
    IN  IF valid_sil # <<>>
        THEN [best |-> LastMax(valid_sil), method |-> "silhouette"]
        ELSE IF multi_metric /\ valid_ch # <<>>
        THEN [best |-> valid_ch[FirstMax(ChOf(valid_ch))], method |-> "calinski_harabasz"]
        ELSE IF multi_metric /\ valid_dbi # <<>>
        THEN [best |-> valid_dbi[FirstMin(DbiOf(valid_dbi))], method |-> "davies_bouldin"]
        ELSE [best |-> scores[FirstMin(InertiaOf(scores))], method |-> "inertia"]

\* pick_best taking the largest Davies-Bouldin score (max in place of min).
pick_best_maxDbi(scores, multi_metric) ==
    LET valid_sil == SelectSeq(scores, LAMBDA s : s.silhouette # None)
        valid_ch == SelectSeq(scores, LAMBDA s : s.ch # None)
        valid_dbi == SelectSeq(scores, LAMBDA s : s.dbi # None)
    IN  IF valid_sil # <<>>
        THEN [best |-> valid_sil[FirstMax(SilOf(valid_sil))], method |-> "silhouette"]
        ELSE IF multi_metric /\ valid_ch # <<>>
        THEN [best |-> valid_ch[FirstMax(ChOf(valid_ch))], method |-> "calinski_harabasz"]
        ELSE IF multi_metric /\ valid_dbi # <<>>
        THEN [best |-> valid_dbi[FirstMax(DbiOf(valid_dbi))], method |-> "davies_bouldin"]
        ELSE [best |-> scores[FirstMin(InertiaOf(scores))], method |-> "inertia"]

pick_best(scores, multi_metric) ==
    LET valid_sil == SelectSeq(scores, LAMBDA s : s.silhouette # None)
        valid_ch == SelectSeq(scores, LAMBDA s : s.ch # None)
        valid_dbi == SelectSeq(scores, LAMBDA s : s.dbi # None)
    IN  IF valid_sil # <<>>
        THEN [best |-> valid_sil[FirstMax(SilOf(valid_sil))], method |-> "silhouette"]
        ELSE IF multi_metric /\ valid_ch # <<>>
        THEN [best |-> valid_ch[FirstMax(ChOf(valid_ch))], method |-> "calinski_harabasz"]
        ELSE IF multi_metric /\ valid_dbi # <<>>
        THEN [best |-> valid_dbi[FirstMin(DbiOf(valid_dbi))], method |-> "davies_bouldin"]
        ELSE [best |-> scores[FirstMin(InertiaOf(scores))], method |-> "inertia"]

(***************************************************************************)
(* make_cluster_tags: one summary per cluster_id of the labeled table      *)
(***************************************************************************)
RECURSIVE SumCol(_, _)
SumCol(table, col) ==
    IF table = {} THEN 0
    ELSE LET x == CHOOSE x \in table : TRUE
         IN  x[col] + SumCol(table \ {x}, col)

\* clustered.groupby("cluster_id"): the rows of one cluster
GroupOf(clustered, cid) == {c \in clustered : c.cluster_id = cid}

\* a > b for two means
MeanGreater(a, b) == a.num * b.den > b.num * a.den

\* A size that counts the distinct amounts of the group (nunique for len).
ClusterSize_nunique(group) == Cardinality({c.total_amount : c \in group})

\* len(group)
ClusterSize(group) == Cardinality(group)

\* The rule with >= in place of >.
ActionTag_notStrict(avg_amount, avg_order_count, clustered) ==
    IF ~MeanGreater(Mean(SumCol(clustered, "total_amount"),
                         Cardinality(clustered)), avg_amount)
    THEN "high_value"
    ELSE IF ~MeanGreater(Mean(SumCol(clustered, "order_count"),
                              Cardinality(clustered)), avg_order_count)
    THEN "high_frequency"
    ELSE "general"

\* The action of a cluster, from its two means and the means of the table.
ActionTag(avg_amount, avg_order_count, clustered) ==
    IF MeanGreater(avg_amount, Mean(SumCol(clustered, "total_amount"),
                                    Cardinality(clustered)))
    THEN "high_value"
    ELSE IF MeanGreater(avg_order_count, Mean(SumCol(clustered, "order_count"),
                                              Cardinality(clustered)))
    THEN "high_frequency"
    ELSE "general"

ClusterSummary(clustered, cid) ==
    LET group == GroupOf(clustered, cid)
        avg_amount == Mean(SumCol(group, "total_amount"), Cardinality(group))
        avg_order_count == Mean(SumCol(group, "order_count"), Cardinality(group))
    IN  [cluster_id |-> cid,
         size |-> ClusterSize(group),
         avg_amount |-> avg_amount,
         avg_order_count |-> avg_order_count,
         action |-> ActionTag(avg_amount, avg_order_count, clustered)]

\* The summaries, sorted by cluster_id.
make_cluster_tags(clustered) ==
    LET ids == {c.cluster_id : c \in clustered}
        nth(i) == CHOOSE c \in ids : Cardinality({d \in ids : d < c}) = i - 1
    IN  [i \in 1..Cardinality(ids) |-> ClusterSummary(clustered, nth(i))]

(***************************************************************************)
(* State                                                                   *)
(***************************************************************************)
VARIABLES
    orders,     \* committed OrderRecord rows
    profiles,   \* committed UserClusterProfile rows
    pc,         \* where each process_upload call stands
    req,        \* its arguments
    df,         \* its cleaned rows
    features,   \* its user_features table
    chosen,     \* its k_used, scores, method
    clustered,  \* its labeled table
    tx,         \* the uncommitted writes of its transaction
    error,      \* the exception that ended it
    start,      \* the committed tables when it was called
    input,      \* what was uploaded: header complete, rows surviving cleaning
    ran,        \* the persistence steps it has executed
    clock,      \* calls made so far; stamps run_at
    lastRun,    \* the profile set of the latest call that returned
    obs,        \* what the latest reader of UserClusterProfile got
    ksel,       \* a stand-alone choose_k_auto call
    result,     \* what each process_upload call returned
    unit,       \* a stand-alone load_csv_to_df / build_user_features call
    web,        \* the HTTP client of upload_view: last response, session
    fenqu       \* the tables of the Fenqu application and its last call

vars == <<orders, profiles, pc, req, df, features, chosen, clustered, tx,
          error, start, input, ran, clock, lastRun, obs, ksel, result, unit, web, fenqu>>

EmptyTx == [orders |-> {}, deleted |-> {}, created |-> {}]
NoChoice == [k_used |-> 0, scores |-> <<>>, method |-> "none"]
NoInput == [header_ok |-> TRUE, kept |-> 0]
NoStart == [orders |-> {}, profiles |-> {}, run |-> 0]
NoObs == [rows |-> {}, complete |-> {}, replacing |-> FALSE]
NoResult ==
    [summaries |-> <<>>,
     metrics |-> [k_used |-> 0, k_auto |-> FALSE, k_range |-> <<0, 0>>,
                  method |-> "none", scores |-> <<>>]]
UnitIdle ==
    [pc |-> "idle", file |-> [columns |-> {}, rows |-> <<>>], now |-> 0,
     df |-> <<>>, error |-> "none", features |-> {}]
WebIdle ==
    [pc |-> "start", status |-> 0, location |-> "", session |-> NoResult,
     page |-> [view |-> "none", summaries |-> <<>>]]
FenquIdle ==
    [users |-> <<>>, results |-> {}, next_id |-> 1, applied |-> 0,
     before |-> {},
     call |-> [fn |-> "none", task |-> 0,
               filters |-> [purchase_count_min |-> 0, total_amount_max |-> 0],
               bins |-> [recency_bins |-> 0, frequency_bins |-> 0,
                         monetary_bins |-> 0],
               n_clusters |-> 0],
     selected |-> {}, returned |-> 0, error |-> "none"]
KselIdle ==
    [pc |-> "idle", n_samples |-> 0, k_min |-> 0, k_max |-> 0,
     multi_metric |-> FALSE, lo |-> 0, hi |-> 0, k |-> 0, scores |-> <<>>,
     k_used |-> 0, method |-> "none", error |-> "none"]

\* Arguments of process_upload: manual mode keeps the range defaults, auto
\* mode keeps the cluster_count default.
ManualRequests ==
    {[cluster_count |-> c, auto_k |-> FALSE, auto_k_multi |-> TRUE,
      k_min |-> KMinFloor, k_max |-> KMaxDefault] : c \in 1..MaxKArg}

AutoRequests ==
    {[cluster_count |-> ClusterCountDefault, auto_k |-> TRUE,
      auto_k_multi |-> m, k_min |-> lo, k_max |-> hi] :
        m \in BOOLEAN, lo \in KMinFloor..MaxKArg, hi \in KMinFloor..MaxKArg}

Requests == ManualRequests \cup AutoRequests

InitPipeline ==
    /\ orders = {}
    /\ profiles = {}
    /\ pc = [p \in Procs |-> "idle"]
    /\ req = [p \in Procs |-> CHOOSE r \in ManualRequests : r.cluster_count = 1]
    /\ df = [p \in Procs |-> <<>>]
    /\ features = [p \in Procs |-> {}]
    /\ chosen = [p \in Procs |-> NoChoice]
    /\ clustered = [p \in Procs |-> {}]
    /\ tx = [p \in Procs |-> EmptyTx]
    /\ error = [p \in Procs |-> "none"]
    /\ start = [p \in Procs |-> NoStart]
    /\ input = [p \in Procs |-> NoInput]
    /\ ran = [p \in Procs |-> {}]
    /\ clock = 0
    /\ lastRun = {}
    /\ obs = NoObs
    /\ result = [p \in Procs |-> NoResult]

Init ==
    /\ InitPipeline
    /\ ksel = KselIdle
    /\ unit = UnitIdle
    /\ web = WebIdle
    /\ fenqu = FenquIdle

(***************************************************************************)
(* @transaction.atomic around process_upload: a call sees the committed    *)
(* tables overlaid with its own writes; leaving with an exception rolls    *)
(* the writes back, returning commits them.                                *)
(***************************************************************************)
VisibleOrders(p) == orders \cup tx[p].orders
VisibleProfiles(p) == (profiles \ tx[p].deleted) \cup tx[p].created

CommittedOrders(p) ==
    orders \cup {o \in tx[p].orders : o.order_id \notin OrderIdsOf(orders)}
CommittedProfiles(p) == (profiles \ tx[p].deleted) \cup tx[p].created

\* Without the decorator every statement so far would stay committed.
Rollback_autocommit(p) ==
    /\ orders' = CommittedOrders(p)
    /\ profiles' = CommittedProfiles(p)

Rollback(p) ==
    /\ orders' = orders
    /\ profiles' = profiles

Raise(p, e) ==
    /\ pc' = [pc EXCEPT ![p] = "raised"]
    /\ error' = [error EXCEPT ![p] = e]
    /\ tx' = [tx EXCEPT ![p] = EmptyTx]
    /\ Rollback(p)

(***************************************************************************)
(* process_upload, step by step                                            *)
(***************************************************************************)
\* The call and its first statement, load_csv_to_df (a pure transform).
Begin(p, file, r) ==
    LET res == load_csv_to_df(file) IN
    /\ pc[p] = "idle"
    /\ clock < MaxRuns
    /\ clock' = clock + 1
    /\ req' = [req EXCEPT ![p] = r]
    /\ start' = [start EXCEPT ![p] =
                    [orders |-> orders, profiles |-> profiles, run |-> clock + 1]]
    /\ input' = [input EXCEPT ![p] =
                    [header_ok |-> MissingColumns(file) = {},
                     kept |-> Len(DropNa(file.rows))]]
    /\ ran' = [ran EXCEPT ![p] = {}]
    /\ IF res.ok
       THEN /\ pc' = [pc EXCEPT ![p] = "loaded"]
            /\ df' = [df EXCEPT ![p] = res.df]
            /\ UNCHANGED <<orders, profiles, tx, error>>
       ELSE /\ Raise(p, res.error)
            /\ UNCHANGED df
    /\ UNCHANGED <<features, chosen, clustered, lastRun, obs, ksel, result, unit, web, fenqu>>

\* datetime.now() of the call numbered run: in the month after the uploaded
\* order times, and later for a later call.
Now(run) == 31 + run

\* One worker serves the uploads, one call after the other.
Worker == CHOOSE p \in Procs : \A q \in Procs : p <= q

Call(p) ==
    /\ p = Worker
    /\ pc[p] = "idle"
    /\ clock < MaxRuns
    /\ \E file \in Files, r \in Requests : Begin(p, file, r)

PersistOrders(p) ==
    /\ pc[p] = "loaded"
    /\ tx' = [tx EXCEPT ![p].orders =
                 InsertIgnore(VisibleOrders(p), df[p]) \ orders]
    /\ ran' = [ran EXCEPT ![p] = @ \cup {"persist_orders"}]
    /\ pc' = [pc EXCEPT ![p] = "orders"]
    /\ UNCHANGED <<orders, profiles, req, df, features, chosen, clustered,
                   error, start, input, clock, lastRun, obs, ksel, result, unit, web, fenqu>>

BuildUserFeatures(p) ==
    /\ pc[p] = "orders"
    /\ features' = [features EXCEPT ![p] =
                       build_user_features(df[p], Now(start[p].run))]
    /\ pc' = [pc EXCEPT ![p] = "features"]
    /\ UNCHANGED <<orders, profiles, req, df, chosen, clustered, tx, error,
                   start, input, ran, clock, lastRun, obs, ksel, result, unit, web, fenqu>>

\* auto_k off: k_used, scores, method = cluster_count, [], "manual"
ChooseKManual(p) ==
    /\ pc[p] = "features"
    /\ ~req[p].auto_k
    /\ chosen' = [chosen EXCEPT ![p] =
                     [k_used |-> req[p].cluster_count, scores |-> <<>>,
                      method |-> "manual"]]
    /\ pc' = [pc EXCEPT ![p] = "k"]
    /\ UNCHANGED <<orders, profiles, req, df, features, clustered, tx, error,
                   start, input, ran, clock, lastRun, obs, ksel, result, unit, web, fenqu>>

\* The score lists a run of the candidate loop lo..hi may produce.
ScoreLists(lo, hi, multi_metric, n_samples) ==
    {[i \in 1..(hi - lo + 1) |-> ScoreOf(lo + i - 1, m[i])] :
        m \in [1..(hi - lo + 1) -> Metrics(multi_metric, n_samples)]}

\* auto_k on: choose_k_auto(user_features, k_min, k_max, auto_k_multi)
ChooseKAuto(p) ==
    LET n == Cardinality(features[p])
        lo == effective_k_min(req[p].k_min)
        hi == effective_k_max(n, req[p].k_min, req[p].k_max)
    IN
    /\ pc[p] = "features"
    /\ req[p].auto_k
    /\ IF n < 2
       THEN /\ Raise(p, "insufficient_samples")
            /\ UNCHANGED chosen
       ELSE IF \E k \in lo..hi : ~KMeansAccepts(n, k)
       THEN /\ Raise(p, "kmeans_value_error")
            /\ UNCHANGED chosen
       ELSE /\ \E scores \in ScoreLists(lo, hi, req[p].auto_k_multi, n) :
                 LET pick == pick_best(scores, req[p].auto_k_multi) IN
                 chosen' = [chosen EXCEPT ![p] =
                               [k_used |-> pick.best.k, scores |-> scores,
                                method |-> pick.method]]
            /\ pc' = [pc EXCEPT ![p] = "k"]
            /\ UNCHANGED <<orders, profiles, tx, error>>
    /\ UNCHANGED <<req, df, features, clustered, start, input, ran, clock,
                   lastRun, obs, ksel, result, unit, web, fenqu>>

RunKMeans(p) ==
    LET n == Cardinality(features[p]) IN
    /\ pc[p] = "k"
    /\ IF KMeansAccepts(n, chosen[p].k_used)
       THEN /\ \E labels \in KMeansLabelings(features[p], chosen[p].k_used) :
                 clustered' = [clustered EXCEPT ![p] =
                                  run_kmeans(features[p], labels)]
            /\ pc' = [pc EXCEPT ![p] = "clustered"]
            /\ UNCHANGED <<orders, profiles, tx, error>>
       ELSE /\ Raise(p, "kmeans_value_error")
            /\ UNCHANGED clustered
    /\ UNCHANGED <<req, df, features, chosen, start, input, ran, clock,
                   lastRun, obs, ksel, result, unit, web, fenqu>>

\* The rows persist_cluster_profiles builds from the labeled table.
NewProfiles(p) ==
    {[user_id |-> c.user_id, cluster_id |-> c.cluster_id,
      total_amount |-> c.total_amount, order_count |-> c.order_count,
      run_at |-> start[p].run] : c \in clustered[p]}

\* A delete committed on the spot, outside any transaction.
PersistDelete_autocommit(p) ==
    /\ pc[p] = "clustered"
    /\ profiles' = {}
    /\ ran' = [ran EXCEPT ![p] = @ \cup {"delete"}]
    /\ pc' = [pc EXCEPT ![p] = "deleted"]
    /\ UNCHANGED <<orders, tx, req, df, features, chosen, clustered, error,
                   start, input, clock, lastRun, obs, ksel, result, unit, web, fenqu>>

\* persist_cluster_profiles that does not delete the prior rows.
PersistDelete_skipped(p) ==
    /\ pc[p] = "clustered"
    /\ ran' = [ran EXCEPT ![p] = @ \cup {"delete"}]
    /\ pc' = [pc EXCEPT ![p] = "deleted"]
    /\ UNCHANGED <<orders, profiles, tx, req, df, features, chosen, clustered,
                   error, start, input, clock, lastRun, obs, ksel, result, unit, web, fenqu>>

\* UserClusterProfile.objects.all().delete()
PersistDelete(p) ==
    /\ pc[p] = "clustered"
    /\ tx' = [tx EXCEPT ![p].deleted = @ \cup (profiles \ @),
                        ![p].created = {}]
    /\ ran' = [ran EXCEPT ![p] = @ \cup {"delete"}]
    /\ pc' = [pc EXCEPT ![p] = "deleted"]
    /\ UNCHANGED <<orders, profiles, req, df, features, chosen, clustered,
                   error, start, input, clock, lastRun, obs, ksel, result, unit, web, fenqu>>

\* UserClusterProfile.objects.bulk_create(profiles)
PersistBulkCreate(p) ==
    /\ pc[p] = "deleted"
    /\ tx' = [tx EXCEPT ![p].created = @ \cup NewProfiles(p)]
    /\ ran' = [ran EXCEPT ![p] = @ \cup {"bulk_create"}]
    /\ pc' = [pc EXCEPT ![p] = "created"]
    /\ UNCHANGED <<orders, profiles, req, df, features, chosen, clustered,
                   error, start, input, clock, lastRun, obs, ksel, result, unit, web, fenqu>>

\* The database refuses the insert (a value out of range, a lock timeout).
PersistBulkCreateFails(p) ==
    /\ pc[p] = "deleted"
    /\ Raise(p, "database_error")
    /\ UNCHANGED <<req, df, features, chosen, clustered, start, input, ran,
                   clock, lastRun, obs, ksel, result, unit, web, fenqu>>

\* The summaries and metrics are assembled and the call returns: commit.
Return(p) ==
    /\ pc[p] = "created"
    /\ orders' = CommittedOrders(p)
    /\ profiles' = CommittedProfiles(p)
    /\ lastRun' = NewProfiles(p)
    /\ tx' = [tx EXCEPT ![p] = EmptyTx]
    /\ result' = [result EXCEPT ![p] =
                     [summaries |-> make_cluster_tags(clustered[p]),
                      metrics |-> [k_used |-> chosen[p].k_used,
                                   k_auto |-> req[p].auto_k,
                                   k_range |-> <<req[p].k_min, req[p].k_max>>,
                                   method |-> chosen[p].method,
                                   scores |-> chosen[p].scores]]]
    /\ pc' = [pc EXCEPT ![p] = "returned"]
    /\ UNCHANGED <<req, df, features, chosen, clustered, error, start, input,
                   ran, clock, obs, ksel, unit, web, fenqu>>

\* The caller (upload_view) has taken the result or the exception.
Finish(p) ==
    /\ pc[p] \in {"returned", "raised"}
    /\ pc' = [pc EXCEPT ![p] = "idle"]
    /\ req' = [req EXCEPT ![p] =
                  CHOOSE r \in ManualRequests : r.cluster_count = 1]
    /\ df' = [df EXCEPT ![p] = <<>>]
    /\ features' = [features EXCEPT ![p] = {}]
    /\ chosen' = [chosen EXCEPT ![p] = NoChoice]
    /\ clustered' = [clustered EXCEPT ![p] = {}]
    /\ error' = [error EXCEPT ![p] = "none"]
    /\ start' = [start EXCEPT ![p] = NoStart]
    /\ input' = [input EXCEPT ![p] = NoInput]
    /\ ran' = [ran EXCEPT ![p] = {}]
    /\ result' = [result EXCEPT ![p] = NoResult]
    /\ UNCHANGED <<orders, profiles, tx, clock, lastRun, obs, ksel, unit, web, fenqu>>

(***************************************************************************)
(* download_clusters, charts_view: one SELECT over UserClusterProfile,     *)
(* outside any transaction of a writer                                     *)
(***************************************************************************)
Replacing == \E p \in Procs : pc[p] \in {"deleted", "created"}

ReadProfiles ==
    /\ obs' = [rows |-> profiles, complete |-> lastRun, replacing |-> Replacing]
    /\ UNCHANGED <<orders, profiles, pc, req, df, features, chosen, clustered,
                   tx, error, start, input, ran, clock, lastRun, ksel, result, unit, web, fenqu>>

Next ==
    \/ \E p \in Procs :
          \/ Call(p)
          \/ PersistOrders(p)
          \/ BuildUserFeatures(p)
          \/ ChooseKManual(p)
          \/ ChooseKAuto(p)
          \/ RunKMeans(p)
          \/ PersistDelete(p)
          \/ PersistBulkCreate(p)
          \/ PersistBulkCreateFails(p)
          \/ Return(p)
          \/ Finish(p)
    \/ ReadProfiles

Spec == Init /\ [][Next]_vars

(***************************************************************************)
(* choose_k_auto called on its own, its candidate loop one fit at a time   *)
(***************************************************************************)
KArgs == (0..MaxKArg) \cup {KCap + 1}

KCalls ==
    {[KselIdle EXCEPT !.pc = "called", !.n_samples = n, !.k_min = lo,
                      !.k_max = hi, !.multi_metric = m] :
        n \in 0..MaxN, lo \in KArgs, hi \in KArgs, m \in BOOLEAN}

InitK ==
    /\ InitPipeline
    /\ ksel \in KCalls
    /\ unit = UnitIdle
    /\ web = WebIdle
    /\ fenqu = FenquIdle

PipelineVars == <<orders, profiles, pc, req, df, features, chosen, clustered,
                  tx, error, start, input, ran, clock, lastRun, obs, result>>

\* n_samples < 2 raises; otherwise the effective range is fixed.
KEnter ==
    /\ ksel.pc = "called"
    /\ IF ksel.n_samples < 2
       THEN ksel' = [ksel EXCEPT !.pc = "raised",
                                 !.error = "insufficient_samples"]
       ELSE ksel' = [ksel EXCEPT
                        !.pc = "loop",
                        !.lo = effective_k_min(ksel.k_min),
                        !.hi = effective_k_max(ksel.n_samples, ksel.k_min,
                                               ksel.k_max),
                        !.k = effective_k_min(ksel.k_min)]
    /\ UNCHANGED <<PipelineVars, unit, web, fenqu>>

\* One pass of the loop: fit K = k, score it, append the record.
KFit ==
    /\ ksel.pc = "loop"
    /\ ksel.k <= ksel.hi
    /\ KMeansAccepts(ksel.n_samples, ksel.k)
    /\ \E m \in Metrics(ksel.multi_metric, ksel.n_samples) :
          ksel' = [ksel EXCEPT !.scores = Append(@, ScoreOf(ksel.k, m)),
                               !.k = @ + 1]
    /\ UNCHANGED <<PipelineVars, unit, web, fenqu>>

\* The fit of a K above n_samples raises out of the loop.
KFitRaises ==
    /\ ksel.pc = "loop"
    /\ ksel.k <= ksel.hi
    /\ ~KMeansAccepts(ksel.n_samples, ksel.k)
    /\ ksel' = [ksel EXCEPT !.pc = "raised", !.error = "kmeans_value_error"]
    /\ UNCHANGED <<PipelineVars, unit, web, fenqu>>

KPick ==
    /\ ksel.pc = "loop"
    /\ ksel.k > ksel.hi
    /\ LET pick == pick_best(ksel.scores, ksel.multi_metric) IN
       ksel' = [ksel EXCEPT !.pc = "returned", !.k_used = pick.best.k,
                            !.method = pick.method]
    /\ UNCHANGED <<PipelineVars, unit, web, fenqu>>

NextK == KEnter \/ KFit \/ KFitRaises \/ KPick

SpecK == InitK /\ [][NextK]_vars

(***************************************************************************)
(* One process_upload call on an empty database, as a test case makes it:  *)
(* the upload is a selection of lines of the sample CSV of tests.py, to    *)
(* which a third user is added                                             *)
(***************************************************************************)
SampleLines ==
    << [user_id |-> "U001", order_id |-> "ORD1001", order_time |-> 1,
        amount |-> 25900, category |-> "Home", is_promo |-> 0,
        refund_flag |-> 0, device |-> "Mobile", channel |-> "App"],
       [user_id |-> "U001", order_id |-> "ORD1055", order_time |-> 15,
        amount |-> 129900, category |-> "Electronics", is_promo |-> 1,
        refund_flag |-> 0, device |-> "Mobile", channel |-> "App"],
       [user_id |-> "U002", order_id |-> "ORD1002", order_time |-> 2,
        amount |-> 5900, category |-> "Grocery", is_promo |-> 0,
        refund_flag |-> 0, device |-> "Web", channel |-> "PC"],
       [user_id |-> "U003", order_id |-> "ORD1003", order_time |-> 3,
        amount |-> 199900, category |-> "Home", is_promo |-> 0,
        refund_flag |-> 0, device |-> "Web", channel |-> "PC"],
       [user_id |-> "U003", order_id |-> "ORD1004", order_time |-> 2,
        amount |-> 5900, category |-> "Grocery", is_promo |-> 0,
        refund_flag |-> 0, device |-> "Web", channel |-> "PC"] >>

\* The lines of seq at the positions in pos, in file order.
Pick(seq, pos) ==
    LET nth(i) == CHOOSE j \in pos : Cardinality({k \in pos : k < j}) = i - 1
    IN  [i \in 1..Cardinality(pos) |-> seq[nth(i)]]

SampleFiles ==
    {[columns |-> REQUIRED_COLUMNS, rows |-> Pick(SampleLines, pos)] :
        pos \in SUBSET (1..Len(SampleLines))}

CallOnce(p) ==
    /\ p = Worker
    /\ pc[p] = "idle"
    /\ clock = 0
    /\ \E file \in SampleFiles, r \in Requests : Begin(p, file, r)

NextU ==
    \E p \in Procs :
        \/ CallOnce(p)
        \/ PersistOrders(p)
        \/ BuildUserFeatures(p)
        \/ ChooseKManual(p)
        \/ ChooseKAuto(p)
        \/ RunKMeans(p)
        \/ PersistDelete(p)
        \/ PersistBulkCreate(p)
        \/ PersistBulkCreateFails(p)
        \/ Return(p)
        \/ Finish(p)

SpecU == Init /\ [][NextU]_vars

(***************************************************************************)
(* load_csv_to_df and build_user_features called on their own, over CSV    *)
(* lines whose cells vary: good lines, and lines with one defective cell   *)
(***************************************************************************)
\* Lines whose key cells are present and whose flags are integers; 40 is an
\* order_time later than the call.
ValidRows ==
    [user_id : Users, order_id : OrderIds, order_time : {15, 40},
     amount : {25900, 129900}, category : {"", "Home"}, is_promo : {0, 1, 2},
     refund_flag : {0, 1}, device : {"Mobile"}, channel : {"App"}]

\* The first sample line with one cell empty or unparseable.
DefectRows ==
    LET r == SampleLines[1] IN
    {[r EXCEPT !.user_id = ""], [r EXCEPT !.order_id = ""],
     [r EXCEPT !.order_time = NaT], [r EXCEPT !.amount = NaN],
     [r EXCEPT !.is_promo = NaN], [r EXCEPT !.refund_flag = NaN],
     [r EXCEPT !.device = ""], [r EXCEPT !.channel = ""],
     [r EXCEPT !.amount = NaN, !.is_promo = NaN]}

UnitRows == ValidRows \cup DefectRows

\* The first sample line with other users, categories and channels.
TopRows ==
    {[SampleLines[1] EXCEPT !.user_id = u, !.category = c, !.channel = ch] :
        u \in Users, c \in {"", "Home", "Beauty"}, ch \in {"", "App"}}

UnitFiles ==
    [columns : {REQUIRED_COLUMNS},
     rows : {<<r>> : r \in UnitRows}
            \cup {<<r, s>> : r \in UnitRows, s \in UnitRows}
            \cup {<<r, s, t>> : r \in TopRows, s \in TopRows, t \in TopRows}]

UnitCalls ==
    {[UnitIdle EXCEPT !.pc = "called", !.file = f, !.now = Now(1)] :
        f \in UnitFiles}

InitF ==
    /\ InitPipeline
    /\ ksel = KselIdle
    /\ unit \in UnitCalls
    /\ web = WebIdle
    /\ fenqu = FenquIdle

UnitLoad ==
    LET res == load_csv_to_df(unit.file) IN
    /\ unit.pc = "called"
    /\ unit' = IF res.ok
               THEN [unit EXCEPT !.pc = "loaded", !.df = res.df]
               ELSE [unit EXCEPT !.pc = "raised", !.error = res.error]
    /\ UNCHANGED <<PipelineVars, ksel, web, fenqu>>

UnitBuild ==
    /\ unit.pc = "loaded"
    /\ unit' = [unit EXCEPT !.pc = "built",
                            !.features = build_user_features(unit.df, unit.now)]
    /\ UNCHANGED <<PipelineVars, ksel, web, fenqu>>

NextF == UnitLoad \/ UnitBuild

SpecF == InitF /\ [][NextF]_vars

(***************************************************************************)
(* upload_view and overview_view: a client posts one upload to an empty    *)
(* database and follows the redirect it is answered with                   *)
(***************************************************************************)
\* urlpatterns of app "segmentation": route name -> path
Routes ==
    [upload |-> "/", overview |-> "/overview/", charts |-> "/charts/",
     samples |-> "/samples/", orders |-> "/orders/", download |-> "/download/"]

\* django.urls.reverse("segmentation:<name>")
reverse(name) ==
    IF name \in DOMAIN Routes THEN Routes[name] ELSE "NoReverseMatch"

\* What a valid UploadForm hands to process_upload: cluster_count is at
\* least 2, and `auto_k_multi or True` is always True.
FormRequests == {r \in Requests : r.cluster_count >= 2 /\ r.auto_k_multi}

Post(p) ==
    /\ p = Worker
    /\ pc[p] = "idle"
    /\ clock = 0
    /\ \E file \in SampleFiles, r \in FormRequests : Begin(p, file, r)

\* The rest of upload_view: the result goes to the session and the client
\* is redirected, or the exception is rendered with status 400.
Respond(p) ==
    /\ pc[p] \in {"returned", "raised"}
    /\ web.pc = "start"
    /\ web' = IF pc[p] = "returned"
              THEN [web EXCEPT !.pc = "answered", !.status = 302,
                               !.location = reverse("overview"),
                               !.session = result[p]]
              ELSE [web EXCEPT !.pc = "answered", !.status = 400]
    /\ pc' = [pc EXCEPT ![p] = "idle"]
    /\ req' = [req EXCEPT ![p] =
                  CHOOSE r \in ManualRequests : r.cluster_count = 1]
    /\ df' = [df EXCEPT ![p] = <<>>]
    /\ features' = [features EXCEPT ![p] = {}]
    /\ chosen' = [chosen EXCEPT ![p] = NoChoice]
    /\ clustered' = [clustered EXCEPT ![p] = {}]
    /\ error' = [error EXCEPT ![p] = "none"]
    /\ start' = [start EXCEPT ![p] = NoStart]
    /\ input' = [input EXCEPT ![p] = NoInput]
    /\ ran' = [ran EXCEPT ![p] = {}]
    /\ result' = [result EXCEPT ![p] = NoResult]
    /\ UNCHANGED <<orders, profiles, tx, clock, lastRun, obs, ksel, unit, fenqu>>

\* The client GETs the Location of the redirect; overview_view renders the
\* summaries of the session.
Follow ==
    /\ web.pc = "answered"
    /\ web.status = 302
    /\ web' = IF web.location = Routes.overview
              THEN [web EXCEPT !.pc = "followed", !.status = 200,
                               !.page = [view |-> "overview",
                                         summaries |-> web.session.summaries]]
              ELSE [web EXCEPT !.pc = "followed", !.status = 404]
    /\ UNCHANGED <<PipelineVars, ksel, unit, fenqu>>

NextV ==
    \/ \E p \in Procs :
          \/ Post(p)
          \/ PersistOrders(p)
          \/ BuildUserFeatures(p)
          \/ ChooseKManual(p)
          \/ ChooseKAuto(p)
          \/ RunKMeans(p)
          \/ PersistDelete(p)
          \/ PersistBulkCreate(p)
          \/ PersistBulkCreateFails(p)
          \/ Return(p)
          \/ Respond(p)
    \/ Follow

SpecV == Init /\ [][NextV]_vars

(***************************************************************************)
(* process_upload called by two requests at once: each call runs in its    *)
(* own transaction, nothing else orders them.  A statement sees the rows   *)
(* committed when it runs, not the uncommitted rows of the other call.     *)
(***************************************************************************)
\* Uploads of users U001 and U002, of U002 and U003, and of U001 alone.
ConcurrentFiles ==
    {[columns |-> REQUIRED_COLUMNS, rows |-> Pick(SampleLines, pos)] :
        pos \in {{1, 3}, {3, 4}, {1}}}

\* cluster_count 2, or auto-K over the range 2..2.
ConcurrentRequests ==
    {r \in Requests :
        /\ r.auto_k_multi
        /\ r.auto_k => (r.k_min = KMinFloor /\ r.k_max = KMinFloor)
        /\ ~r.auto_k => r.cluster_count = KMinFloor}

CallConcurrently(p) ==
    /\ pc[p] = "idle"
    /\ clock < MaxRuns
    /\ \E file \in ConcurrentFiles, r \in ConcurrentRequests : Begin(p, file, r)

NextC ==
    \E p \in Procs :
        \/ CallConcurrently(p)
        \/ PersistOrders(p)
        \/ BuildUserFeatures(p)
        \/ ChooseKManual(p)
        \/ ChooseKAuto(p)
        \/ RunKMeans(p)
        \/ PersistDelete(p)
        \/ PersistBulkCreate(p)
        \/ PersistBulkCreateFails(p)
        \/ Return(p)
        \/ Finish(p)

SpecC == Init /\ [][NextC]_vars

(***************************************************************************)
(* Fenqu/segmentation: the stored users (UserProfile), the results of the  *)
(* segmentation tasks (SegmentResult), the import of users and the three   *)
(* segmentation functions of utils.py.  Dates are whole days.  The         *)
(* metadata column of SegmentResult is written and never read by the       *)
(* functions; it is left out of the rows.  Stored counts and amounts are   *)
(* positive here, so that None stays apart from every stored value.        *)
(***************************************************************************)
FenquUserIds == {"U001", "U002"}
\* A user bought once for 100 on day 10, or differs from that in one value.
FenquProfiles ==
    {p \in [user_id : FenquUserIds, last_purchase_date : {None, 10},
            purchase_count : {1, 3}, total_amount : {100, 900}] :
        Cardinality({c \in {1, 2, 3} :
            <<p.last_purchase_date, p.purchase_count, p.total_amount>>[c]
                # <<10, 1, 100>>[c]}) <= 1}
FenquTasks == {1, 2}

\* timezone.now().date()
FenquToday == 40
RecencyMissing == 999

\* RuleSegmentationForm with the count and amount limits filled in or left
\* empty; the other filters are left empty.
RuleFilters ==
    [purchase_count_min : {None, 2}, total_amount_max : {None, 500}]
\* RFMSegmentationForm: the initial configuration and one with other bins.
RfmBins ==
    {[recency_bins |-> 3, frequency_bins |-> 3, monetary_bins |-> 3],
     [recency_bins |-> 2, frequency_bins |-> 3, monetary_bins |-> 5]}
\* ClusterSegmentationForm: n_clusters; use_features keeps its initial value.
ClusterCounts == {2, 3}

NoFilters == [purchase_count_min |-> None, total_amount_max |-> None]
NoBins == [recency_bins |-> 0, frequency_bins |-> 0, monetary_bins |-> 0]

RECURSIVE Reverse(_)
Reverse(seq) ==
    IF seq = <<>> THEN <<>> ELSE Append(Reverse(Tail(seq)), Head(seq))

RECURSIVE FilterSeq(_, _)
FilterSeq(seq, keep) ==
    IF seq = <<>> THEN <<>>
    ELSE (IF Head(seq) \in keep THEN <<Head(seq)>> ELSE <<>>)
         \o FilterSeq(Tail(seq), keep)

\* UserProfile.objects.all(): Meta.ordering is newest first.
AllUsers(users) == Reverse(users)

\* import_csv_data of a file of one row: bulk_create(ignore_conflicts=True)
\* keeps the stored row of a user_id that is already there.
ImportRows(users, row) ==
    IF row.user_id \in {u.user_id : u \in Range(users)} THEN users
    ELSE Append(users, row)

\* The filters of apply_rule_segmentation that the form filled in.
MatchesRule(user, filters) ==
    /\ filters.purchase_count_min # None
          => user.purchase_count >= filters.purchase_count_min
    /\ filters.total_amount_max # None
          => user.total_amount <= filters.total_amount_max

RuleQuerySet(users, filters) ==
    FilterSeq(AllUsers(users), {u \in Range(users) : MatchesRule(u, filters)})

_rfm_scores == <<1, 2, 3, 4, 5>>

\* scores[-num_bins:]
LastScores(scores, num_bins) ==
    SubSeq(scores, Max(1, Len(scores) - num_bins + 1), Len(scores))

\* The boundaries list is computed and not used: the score is the middle
\* entry of scores, whatever the value.
score_bin(value, num_bins, scores) ==
    IF value = None THEN 1
    ELSE scores[Min(num_bins - 1, num_bins \div 2) + 1]

RecencyOf(user) ==
    IF user.last_purchase_date # None
    THEN FenquToday - user.last_purchase_date ELSE None

RfmLabel(user, bins) ==
    LET recency_score ==
            score_bin(OrDefault(RecencyOf(user), RecencyMissing),
                      bins.recency_bins,
                      LastScores(_rfm_scores, bins.recency_bins))
        frequency_score ==
            score_bin(user.purchase_count, bins.frequency_bins,
                      LastScores(_rfm_scores, bins.frequency_bins))
        monetary_score ==
            score_bin(user.total_amount, bins.monetary_bins,
                      LastScores(_rfm_scores, bins.monetary_bins))
    IN  "R" \o ToString(recency_score) \o "F" \o ToString(frequency_score)
            \o "M" \o ToString(monetary_score)

\* data_rows over purchase_count, total_amount and recency.
DataRow(user) ==
    <<user.purchase_count, user.total_amount,
      IF user.last_purchase_date # None
      THEN FenquToday - user.last_purchase_date ELSE RecencyMissing>>

\* fit_predict: one label per row; no cluster is empty when the rows hold
\* n_clusters distinct points.
FitPredict(rows, n_clusters) ==
    LET all == [1..Len(rows) -> 0..(n_clusters - 1)]
    IN  IF Cardinality(Range(rows)) >= n_clusters
        THEN {l \in all : {l[i] : i \in 1..Len(rows)} = 0..(n_clusters - 1)}
        ELSE all

\* SegmentResult.objects.filter(task=task).delete(), and a delete that does
\* not look at the task.
DeleteOfTask_everyTask(results, task) == {}

DeleteOfTask(results, task) == {r \in results : r.task # task}

\* bulk_create: the rows get the next ids of the table, in list order.
BulkCreate(task, label, userSeq, values, next_id) ==
    {[id |-> next_id + i - 1, task |-> task, user |-> userSeq[i].user_id,
      segment_label |-> label, segment_value |-> values[i]] :
        i \in 1..Len(userSeq)}

NoCall ==
    [fn |-> "none", task |-> 0, filters |-> NoFilters, bins |-> NoBins,
     n_clusters |-> 0]

\* with transaction.atomic(): delete the task's rows, bulk_create the new.
Replace(call, userSeq, values) ==
    fenqu' = [fenqu EXCEPT
        !.results = DeleteOfTask(fenqu.results, call.task)
                        \cup BulkCreate(call.task, call.fn, userSeq, values,
                                        fenqu.next_id),
        !.next_id = fenqu.next_id + Len(userSeq),
        !.applied = fenqu.applied + 1,
        !.before = fenqu.results,
        !.call = call,
        !.selected = {u.user_id : u \in Range(userSeq)},
        !.returned = Len(userSeq),
        !.error = "none"]

ImportCsvData ==
    /\ \E row \in FenquProfiles :
          fenqu' = [fenqu EXCEPT
              !.users = ImportRows(fenqu.users, row),
              !.before = fenqu.results,
              !.call = [NoCall EXCEPT !.fn = "import"],
              !.selected = {},
              !.returned = 1,
              !.error = "none"]
    /\ UNCHANGED <<PipelineVars, ksel, unit, web>>

ApplyRuleSegmentation ==
    /\ fenqu.applied < MaxApplies
    /\ \E task \in FenquTasks, filters \in RuleFilters :
          LET qs == RuleQuerySet(fenqu.users, filters)
          IN  Replace([NoCall EXCEPT !.fn = "rule", !.task = task,
                                     !.filters = filters],
                      qs, [i \in 1..Len(qs) |-> "match"])
    /\ UNCHANGED <<PipelineVars, ksel, unit, web>>

ApplyRfmSegmentation ==
    /\ fenqu.applied < MaxApplies
    /\ \E task \in FenquTasks, bins \in RfmBins :
          LET qs == AllUsers(fenqu.users)
          IN  Replace([NoCall EXCEPT !.fn = "rfm", !.task = task,
                                     !.bins = bins],
                      qs, [i \in 1..Len(qs) |-> RfmLabel(qs[i], bins)])
    /\ UNCHANGED <<PipelineVars, ksel, unit, web>>

\* if not data_rows: return 0
ApplyClusterNoUsers ==
    /\ fenqu.applied < MaxApplies
    /\ fenqu.users = <<>>
    /\ \E task \in FenquTasks, n_clusters \in ClusterCounts :
          fenqu' = [fenqu EXCEPT
              !.applied = fenqu.applied + 1,
              !.before = fenqu.results,
              !.call = [NoCall EXCEPT !.fn = "cluster", !.task = task,
                                      !.n_clusters = n_clusters],
              !.selected = {},
              !.returned = 0,
              !.error = "none"]
    /\ UNCHANGED <<PipelineVars, ksel, unit, web>>

\* KMeans raises before the atomic block is entered.
ApplyClusterRaises ==
    /\ fenqu.applied < MaxApplies
    /\ fenqu.users # <<>>
    /\ \E task \in FenquTasks, n_clusters \in ClusterCounts :
          /\ ~KMeansAccepts(Len(fenqu.users), n_clusters)
          /\ fenqu' = [fenqu EXCEPT
                 !.applied = fenqu.applied + 1,
                 !.before = fenqu.results,
                 !.call = [NoCall EXCEPT !.fn = "cluster", !.task = task,
                                         !.n_clusters = n_clusters],
                 !.selected = {},
                 !.returned = 0,
                 !.error = "value_error"]
    /\ UNCHANGED <<PipelineVars, ksel, unit, web>>

ApplyClusterSegmentation ==
    /\ fenqu.applied < MaxApplies
    /\ fenqu.users # <<>>
    /\ \E task \in FenquTasks, n_clusters \in ClusterCounts :
          /\ KMeansAccepts(Len(fenqu.users), n_clusters)
          /\ LET users == AllUsers(fenqu.users)
                 data_rows == [i \in 1..Len(users) |-> DataRow(users[i])]
             IN  \E labels \in FitPredict(data_rows, n_clusters) :
                    Replace([NoCall EXCEPT !.fn = "cluster", !.task = task,
                                           !.n_clusters = n_clusters],
                            users,
                            [i \in 1..Len(users) |->
                                "cluster_" \o ToString(labels[i])])
    /\ UNCHANGED <<PipelineVars, ksel, unit, web>>

NextS ==
    \/ ImportCsvData
    \/ ApplyRuleSegmentation
    \/ ApplyRfmSegmentation
    \/ ApplyClusterNoUsers
    \/ ApplyClusterRaises
    \/ ApplyClusterSegmentation

SpecS == Init /\ [][NextS]_vars

(***************************************************************************)
(* Properties                                                              *)
(***************************************************************************)
Terminal(p) == pc[p] \in {"returned", "raised"}

\* C1: a reader of UserClusterProfile gets the whole profile set of the
\* latest call that returned (the previous run's set until the new run
\* commits, the new run's set afterwards), never a partly replaced set,
\* also when it reads between the delete and the bulk_create of a call.
C1_ReaderSeesCompleteSet == obs.rows = obs.complete

\* A read made inside the replacement window that returned the prior rows.
C1_ReadWhileReplacing == obs.replacing /\ obs.rows # {}

\* C2: when process_upload has raised, the committed UserClusterProfile
\* rows are those of the moment it was called.
C2_RaiseKeepsProfiles ==
    \A p \in Procs : pc[p] = "raised" => profiles = start[p].profiles

\* A call that raised after its delete had run, over a non-empty table.
C2_RaisedAfterDelete ==
    \E p \in Procs :
        /\ pc[p] = "raised"
        /\ "delete" \in ran[p]
        /\ start[p].profiles # {}

\* C3: when clustering fails after persist_orders has run, the orders of
\* the upload are stored in OrderRecord once the call has ended.
C3_OrdersOutliveClusteringFailure ==
    \A p \in Procs :
        (/\ pc[p] = "raised"
         /\ "persist_orders" \in ran[p]
         /\ error[p] \in {"insufficient_samples", "kmeans_value_error"})
        => \A i \in 1..Len(df[p]) : df[p][i].order_id \in OrderIdsOf(orders)

\* C4: an upload that lacks a required column, or of which no row survives
\* cleaning, ends in the ingestion error before any persistence step, with
\* both tables as they were.
C4_IngestionFailureTouchesNothing ==
    \A p \in Procs :
        (pc[p] # "idle" /\ (~input[p].header_ok \/ input[p].kept = 0))
        => /\ pc[p] = "raised"
           /\ error[p] = IF input[p].header_ok THEN "empty"
                                               ELSE "missing_columns"
           /\ ran[p] = {}
           /\ orders = start[p].orders
           /\ profiles = start[p].profiles

\* An upload with no surviving row, rejected while prior profiles exist.
C4_EmptyUploadOverPriorRun ==
    \E p \in Procs :
        /\ pc[p] = "raised"
        /\ error[p] = "empty"
        /\ start[p].profiles # {}
        /\ start[p].orders # {}

\* C5: when a call has returned, UserClusterProfile holds exactly one row
\* for each user_id of that upload's cleaned rows, all written by that
\* call, and no row of an earlier run.
C5_ProfilesAreLatestUploadOnly ==
    \A p \in Procs :
        pc[p] = "returned"
        => /\ {pr.user_id : pr \in profiles} = UsersOf(df[p])
           /\ Cardinality(profiles) = Cardinality(UsersOf(df[p]))
           /\ \A pr \in profiles : pr.run_at = start[p].run

\* A returned call whose upload lacks a user the prior run had profiled.
C5_EarlierUserDropped ==
    \E p \in Procs :
        /\ pc[p] = "returned"
        /\ \E old \in start[p].profiles : old.user_id \notin UsersOf(df[p])

\* C6: no two OrderRecord rows share an order_id; once an upload that
\* reached persist_orders has ended, each of its rows whose order_id was
\* stored before left that record as it was, and each of its rows with a
\* new order_id has a stored record.
C6_OrdersUniqueOldKeptNewAdded ==
    /\ \A a \in orders, b \in orders : a.order_id = b.order_id => a = b
    /\ \A p \in Procs :
          (Terminal(p) /\ "persist_orders" \in ran[p])
          => \A i \in 1..Len(df[p]) :
                IF df[p][i].order_id \in OrderIdsOf(start[p].orders)
                THEN \A o \in start[p].orders :
                        o.order_id = df[p][i].order_id => o \in orders
                ELSE df[p][i].order_id \in OrderIdsOf(orders)

KScores == Range(ksel.scores)
KBest == CHOOSE s \in KScores : s.k = ksel.k_used

\* C7: when some candidate has a silhouette score, choose_k_auto returns
\* the candidate of maximal silhouette, the smallest K among equals,
\* whatever the inertia, CH and DBI values are.
C7_MaxSilhouetteSmallestK ==
    (ksel.pc = "returned" /\ \E s \in KScores : s.silhouette # None)
    => /\ \E s \in KScores : s.k = ksel.k_used
       /\ KBest.silhouette # None
       /\ \A s \in KScores :
             s.silhouette # None
             => \/ s.silhouette < KBest.silhouette
                \/ s.silhouette = KBest.silhouette /\ s.k >= ksel.k_used

\* Candidates 2 and 3 tie on silhouette; 2 is returned although 3 has the
\* lower inertia and the higher CH.
C7_TieGoesToSmallerK ==
    /\ ksel.pc = "returned"
    /\ Len(ksel.scores) = 2
    /\ ksel.scores[1].silhouette # None
    /\ ksel.scores[1].silhouette = ksel.scores[2].silhouette
    /\ ksel.scores[2].inertia < ksel.scores[1].inertia
    /\ ksel.scores[2].ch > ksel.scores[1].ch
    /\ ksel.k_used = ksel.scores[1].k

\* C8: with no silhouette score at all, multi-metric mode returns the
\* candidate of maximal CH if any CH exists, else of minimal DBI if any DBI
\* exists, else of minimal inertia; single-metric mode returns the
\* candidate of minimal inertia.  The method label is the metric of the
\* branch that chose.
C8_FallbackOrderAndLabel ==
    ksel.pc = "returned"
    => LET anySil == \E s \in KScores : s.silhouette # None
           anyCh == ksel.multi_metric /\ \E s \in KScores : s.ch # None
           anyDbi == ksel.multi_metric /\ \E s \in KScores : s.dbi # None
       IN  /\ \E s \in KScores : s.k = ksel.k_used
           /\ ksel.method = "silhouette" <=> anySil
           /\ (~anySil /\ anyCh)
              => /\ ksel.method = "calinski_harabasz"
                 /\ KBest.ch # None
                 /\ \A s \in KScores : s.ch # None => s.ch <= KBest.ch
           /\ (~anySil /\ ~anyCh /\ anyDbi)
              => /\ ksel.method = "davies_bouldin"
                 /\ KBest.dbi # None
                 /\ \A s \in KScores : s.dbi # None => s.dbi >= KBest.dbi
           /\ (~anySil /\ ~anyCh /\ ~anyDbi)
              => /\ ksel.method = "inertia"
                 /\ \A s \in KScores : s.inertia >= KBest.inertia

\* No silhouette and no CH: the candidate of lower DBI wins although the
\* other has the lower inertia.
C8_DbiDecides ==
    /\ ksel.pc = "returned"
    /\ ksel.method = "davies_bouldin"
    /\ Len(ksel.scores) = 2
    /\ ksel.scores[1].dbi # None
    /\ ksel.scores[2].dbi # None
    /\ ksel.scores[2].dbi < ksel.scores[1].dbi
    /\ ksel.scores[1].inertia < ksel.scores[2].inertia
    /\ ksel.k_used = ksel.scores[2].k

\* C9: for a call with at least 2 entities the candidate range satisfies
\* 2 <= effective_k_min <= effective_k_max <= min(k_max, n_samples - 1, 10),
\* k_max being the requested one, or its default when none is given.
C9_RangeWithinCaps ==
    ksel.pc \in {"loop", "returned"}
    => /\ 2 <= ksel.lo
       /\ ksel.lo <= ksel.hi
       /\ ksel.hi <= Min(Min(OrDefault(ksel.k_max, KMaxDefault),
                             ksel.n_samples - 1), 10)

\* C10: a run whose cleaned rows hold fewer than 2 entities goes no further
\* than the choice of K, and ends in the insufficient-samples error.
C10_FewerThanTwoEntitiesRejected ==
    \A p \in Procs :
        (df[p] # <<>> /\ Cardinality(UsersOf(df[p])) < 2)
        => /\ pc[p] \notin {"clustered", "deleted", "created", "returned"}
           /\ pc[p] = "raised" => error[p] = "insufficient_samples"

\* run_kmeans has been called with the cluster_count of a manual-mode call.
ManualFitDone(p) == chosen[p].method = "manual" /\ pc[p] # "k"

Fitted(p) == pc[p] \in {"clustered", "deleted", "created", "returned"}

\* C12: when run_kmeans has succeeded with K, the labeled table holds
\* exactly one row, hence one cluster id, for each entity, every id is in
\* 0..K-1, and so is every id written to and committed in UserClusterProfile.
C12_EachEntityOneIdBelowK ==
    \A p \in Procs :
        Fitted(p)
        => /\ \A f \in features[p] :
                 Cardinality({c \in clustered[p] : c.user_id = f.user_id}) = 1
           /\ {c.user_id : c \in clustered[p]} = {f.user_id : f \in features[p]}
           /\ \A c \in clustered[p] : c.cluster_id \in 0..(chosen[p].k_used - 1)
           /\ \A pr \in tx[p].created :
                 pr.cluster_id \in 0..(chosen[p].k_used - 1)
           /\ pc[p] = "returned"
              => \A pr \in profiles :
                    pr.cluster_id \in 0..(chosen[p].k_used - 1)

\* Three entities in two clusters, persisted: an id shared by two entities.
C12_ThreeEntitiesTwoClusters ==
    \E p \in Procs :
        /\ pc[p] = "returned"
        /\ chosen[p].k_used = 2
        /\ Cardinality(profiles) = 3
        /\ {pr.cluster_id : pr \in profiles} = {0, 1}

RECURSIVE SumSizes(_)
SumSizes(summaries) ==
    IF summaries = <<>> THEN 0
    ELSE Head(summaries).size + SumSizes(Tail(summaries))

\* C15: the summaries a call returns hold exactly one summary for each
\* cluster id present in the labeled table, and their sizes add up to the
\* number of entities.
C15_OneSummaryPerClusterSizesAddUp ==
    \A p \in Procs :
        pc[p] = "returned"
        => LET summaries == result[p].summaries
               ids == {c.cluster_id : c \in clustered[p]}
           IN  /\ {summaries[i].cluster_id : i \in 1..Len(summaries)} = ids
               /\ Len(summaries) = Cardinality(ids)
               /\ SumSizes(summaries) = Cardinality(features[p])

\* Two summaries over three entities, the two entities of one cluster
\* having equal totals.
C15_TwoOfThreeShareACluster ==
    \E p \in Procs :
        /\ pc[p] = "returned"
        /\ Cardinality(features[p]) = 3
        /\ Len(result[p].summaries) = 2
        /\ \E a \in clustered[p], b \in clustered[p] :
              /\ a.user_id # b.user_id
              /\ a.cluster_id = b.cluster_id
              /\ a.total_amount = b.total_amount

\* C16: the action of a cluster is high-value when the mean total_amount of
\* its entities is strictly above the mean over all entities; otherwise
\* high-frequency when its mean order_count is strictly above the mean over
\* all entities; otherwise general.  A cluster whose two means equal the
\* overall means is general.
C16_ActionTagByStrictMeans ==
    \A p \in Procs :
        pc[p] = "returned"
        => \A i \in 1..Len(result[p].summaries) :
              LET sm == result[p].summaries[i]
                  group == {c \in clustered[p] : c.cluster_id = sm.cluster_id}
                  n == Cardinality(clustered[p])
                  g == Cardinality(group)
                  amountAbove ==
                      SumCol(group, "total_amount") * n
                          > SumCol(clustered[p], "total_amount") * g
                  countAbove ==
                      SumCol(group, "order_count") * n
                          > SumCol(clustered[p], "order_count") * g
              IN  /\ sm.action \in {"high_value", "high_frequency", "general"}
                  /\ sm.action = "high_value" <=> amountAbove
                  /\ sm.action = "high_frequency" <=> (~amountAbove /\ countAbove)
                  /\ sm.action = "general" <=> (~amountAbove /\ ~countAbove)

\* Two clusters whose means both equal the overall means (two entities with
\* equal features, one in each cluster): both general.
C16_EqualMeansAreGeneral ==
    \E p \in Procs :
        /\ pc[p] = "returned"
        /\ Len(result[p].summaries) = 2
        /\ Cardinality(Vectors(features[p])) = 1
        /\ \A i \in 1..2 : result[p].summaries[i].action = "general"

\* C20: when an auto-K call with 2 <= k_min <= k_max has returned, its
\* metrics say k_auto, list at least one score record, and k_used lies in
\* k_min..k_max and is the K of a listed record; with k_min = k_max = 2,
\* k_used is 2.
C20_AutoKUsedWithinRequestedRange ==
    \A p \in Procs :
        (/\ pc[p] = "returned"
         /\ req[p].auto_k
         /\ 2 <= req[p].k_min
         /\ req[p].k_min <= req[p].k_max)
        => LET metrics == result[p].metrics IN
           /\ metrics.k_auto
           /\ metrics.scores # <<>>
           /\ metrics.k_used \in req[p].k_min..req[p].k_max
           /\ \E i \in 1..Len(metrics.scores) :
                 metrics.scores[i].k = metrics.k_used
           /\ (req[p].k_min = 2 /\ req[p].k_max = 2) => metrics.k_used = 2

\* The auto-K test of the repository: k_min 2, k_max 3 over the sample's
\* two entities.
C20_AutoTwoToThreeOverTwoEntities ==
    \E p \in Procs :
        /\ pc[p] = "returned"
        /\ req[p].auto_k
        /\ req[p].k_min = 2
        /\ req[p].k_max = 3
        /\ Cardinality(features[p]) = 2
        /\ result[p].metrics.k_used = 2

\* The positions of the rows of user u in the cleaned rows of the call.
RowsOfUser(u) == {i \in 1..Len(unit.df) : unit.df[i].user_id = u}

RECURSIVE SumAt(_, _)
SumAt(pos, col) ==
    IF pos = {} THEN 0
    ELSE LET i == CHOOSE i \in pos : TRUE
         IN  unit.df[i][col] + SumAt(pos \ {i}, col)

\* C17: build_user_features returns exactly one row for each user_id of
\* the cleaned rows; its total_amount is the sum of the user's amounts, its
\* order_count the number of the user's rows, its avg_amount the total over
\* the count, and its promo_ratio / refund_ratio the fraction of the user's
\* rows whose flag is set, the flag being 0 or 1.
C17_OneRowPerUserWithAggregates ==
    unit.pc = "built"
    => /\ {f.user_id : f \in unit.features} = UsersOf(unit.df)
       /\ Cardinality(unit.features) = Cardinality(UsersOf(unit.df))
       /\ \A f \in unit.features :
             LET pos == RowsOfUser(f.user_id)
                 promo == {i \in pos : unit.df[i].is_promo = 1}
                 refund == {i \in pos : unit.df[i].refund_flag = 1}
             IN  /\ f.total_amount = SumAt(pos, "amount")
                 /\ f.order_count = Cardinality(pos)
                 /\ f.avg_amount.den > 0
                 /\ f.avg_amount.num * f.order_count
                        = f.total_amount * f.avg_amount.den
                 /\ (\A i \in pos : unit.df[i].is_promo \in {0, 1})
                    => /\ f.promo_ratio.den > 0
                       /\ f.promo_ratio.num * Cardinality(pos)
                              = Cardinality(promo) * f.promo_ratio.den
                 /\ (\A i \in pos : unit.df[i].refund_flag \in {0, 1})
                    => /\ f.refund_ratio.den > 0
                       /\ f.refund_ratio.num * Cardinality(pos)
                              = Cardinality(refund) * f.refund_ratio.den

\* The example of the claim: amounts 259 and 1299 of one user, one of the
\* two a promotion, give total 1558, count 2, promo_ratio 1/2.
C17_TwoOrdersOnePromo ==
    /\ unit.pc = "built"
    /\ Len(unit.df) = 2
    /\ unit.df[1].amount = 25900 /\ unit.df[1].is_promo = 0
    /\ unit.df[2].amount = 129900 /\ unit.df[2].is_promo = 1
    /\ \E f \in unit.features :
          /\ unit.features = {f}
          /\ f.total_amount = 155800
          /\ f.order_count = 2
          /\ f.promo_ratio.num * 2 = f.promo_ratio.den

\* The row of a user who has exactly one cleaned row.
OnlyRowOf(u) == unit.df[CHOOSE i \in RowsOfUser(u) : TRUE]

\* C18 as stated: for every entity with exactly one cleaned record,
\* whatever its order_time and its integer flag values, avg_amount equals
\* total_amount, promo_ratio and refund_ratio are 0 or 1, and recency_days
\* is at least 0.
C18_SingleRecordAnyTimeAnyFlag ==
    unit.pc = "built"
    => \A f \in unit.features :
          Cardinality(RowsOfUser(f.user_id)) = 1
          => /\ f.avg_amount.num = f.total_amount * f.avg_amount.den
             /\ f.promo_ratio.num \in {0, f.promo_ratio.den}
             /\ f.refund_ratio.num \in {0, f.refund_ratio.den}
             /\ f.recency_days >= 0

\* C18 amended: for every entity with exactly one cleaned record,
\* avg_amount equals total_amount; promo_ratio and refund_ratio equal the
\* record's flag values, hence are 0 or 1 when the flag is 0 or 1; and
\* recency_days is at least 0 when the record's order_time is not later than
\* the time of the call.
C18_SingleRecordBooleanFlagsPastTime ==
    unit.pc = "built"
    => \A f \in unit.features :
          Cardinality(RowsOfUser(f.user_id)) = 1
          => LET r == OnlyRowOf(f.user_id) IN
             /\ f.avg_amount.num = f.total_amount * f.avg_amount.den
             /\ f.promo_ratio.num = r.is_promo * f.promo_ratio.den
             /\ f.refund_ratio.num = r.refund_flag * f.refund_ratio.den
             /\ r.is_promo \in {0, 1}
                => f.promo_ratio.num \in {0, f.promo_ratio.den}
             /\ r.refund_flag \in {0, 1}
                => f.refund_ratio.num \in {0, f.refund_ratio.den}
             /\ r.order_time <= unit.now => f.recency_days >= 0
             /\ r.order_time > unit.now => f.recency_days < 0

\* One record, a promotion, ordered before the call.
C18_SinglePromoRecordInThePast ==
    /\ unit.pc = "built"
    /\ Len(unit.df) = 1
    /\ unit.df[1].is_promo = 1
    /\ unit.df[1].order_time < unit.now
    /\ \E f \in unit.features :
          /\ f.promo_ratio.num = f.promo_ratio.den
          /\ f.recency_days > 0

\* The lines of the uploaded file none of whose four key cells is missing.
KeyCellsPresent(rows) ==
    SelectSeq(rows, LAMBDA r : /\ r.user_id # "" /\ r.order_id # ""
                               /\ r.order_time # NaT /\ r.amount # NaN)

\* C19: load_csv_to_df returns exactly the lines whose user_id, order_id,
\* order_time and amount are present after coercion, unchanged and in file
\* order, whatever their other cells are; a line with another defect makes
\* neither the load fail nor another line disappear.
C19_DropsExactlyKeyMissingRows ==
    (unit.pc \in {"loaded", "built", "raised"}
        /\ KeyCellsPresent(unit.file.rows) # <<>>)
    => /\ unit.pc # "raised"
       /\ unit.df = KeyCellsPresent(unit.file.rows)

\* C21: a POST whose pipeline succeeded is answered 302 with the URL of the
\* route named segmentation:result as Location, and the GET of that URL
\* renders the overview of the run stored in the session.
C21_RedirectToResultRoute ==
    (web.pc \in {"answered", "followed"} /\ web.session # NoResult)
    => /\ "result" \in DOMAIN Routes
       /\ web.location = reverse("result")
       /\ web.pc = "answered" => web.status = 302
       /\ web.pc = "followed"
          => /\ web.status = 200
             /\ web.page = [view |-> "overview",
                            summaries |-> web.session.summaries]

\* Occurrences of value v in column col among the rows at positions pos.
CountAt(pos, col, v) == Cardinality({i \in pos : unit.df[i][col] = v})

\* The first position in pos whose cell in column col is v.
FirstAt(pos, col, v) ==
    CHOOSE i \in pos : /\ unit.df[i][col] = v
                       /\ \A j \in pos : unit.df[j][col] = v => i <= j

\* top is the mode of column col over the rows at pos: "" when every cell
\* is missing, else a most frequent string, the first met among equals.
IsTopOf(top, pos, col) ==
    LET vals == {unit.df[i][col] : i \in pos} \ {""}
    IN  IF vals = {} THEN top = ""
        ELSE /\ top \in vals
             /\ \A w \in vals \ {top} :
                   \/ CountAt(pos, col, w) < CountAt(pos, col, top)
                   \/ /\ CountAt(pos, col, w) = CountAt(pos, col, top)
                      /\ FirstAt(pos, col, top) < FirstAt(pos, col, w)

\* C22: for each entity, top_category, top_channel and top_device are the
\* most frequent non-missing string of the column among the entity's rows,
\* the one met first in row order among equally frequent ones, and "" when
\* the entity has no non-missing value in the column.
C22_TopValueIsFirstMetMode ==
    unit.pc = "built"
    => \A f \in unit.features :
          /\ IsTopOf(f.top_category, RowsOfUser(f.user_id), "category")
          /\ IsTopOf(f.top_channel, RowsOfUser(f.user_id), "channel")
          /\ IsTopOf(f.top_device, RowsOfUser(f.user_id), "device")

\* One user with categories Beauty, Home, Home: the value met later is the
\* more frequent one; the channel cell of the first row is empty.
C22_LaterValueMoreFrequent ==
    /\ unit.pc = "built"
    /\ Len(unit.df) = 3
    /\ unit.df[1].category = "Beauty"
    /\ unit.df[2].category = "Home"
    /\ unit.df[3].category = "Home"
    /\ unit.df[1].channel = ""
    /\ \E f \in unit.features :
          /\ unit.features = {f}
          /\ f.top_category = "Home"
          /\ f.top_channel = "App"

\* C23: in every committed state, whatever the order of the steps of the
\* process_upload calls, UserClusterProfile holds at most one row per
\* user_id, and all its rows were written by the same run.
C23_OneRowPerUserOneRun ==
    \A a \in profiles, b \in profiles :
        /\ a.run_at = b.run_at
        /\ a.user_id = b.user_id => a = b

\* The segmentation call that returned last, and its task's rows.
Applied(fn) == fenqu.call.fn = fn /\ fenqu.error = "none"
RowsOfTask(rows, task) == {r \in rows : r.task = task}
IdsOf(rows) == {r.id : r \in rows}

\* Two stored-user values that differ in exactly one of last purchase date,
\* purchase count and total amount.
DifferInOne(a, b) ==
    Cardinality({col \in {"last_purchase_date", "purchase_count",
                          "total_amount"} : a[col] # b[col]}) = 1

\* C24: the label R<r>F<f>M<m> that apply_rfm_segmentation gives a user
\* depends on the user's recency, purchase count and total amount: under
\* the bin configuration of a finished run there are two users, differing
\* in one of the three values, that receive different labels.
C24_LabelDependsOnUserValues ==
    Applied("rfm") =>
        \E a \in FenquProfiles, b \in FenquProfiles :
            /\ DifferInOne(a, b)
            /\ RfmLabel(a, fenqu.call.bins) # RfmLabel(b, fenqu.call.bins)

\* C25: a finished apply_rule_segmentation, apply_rfm_segmentation or
\* apply_cluster_segmentation call for a task leaves the task with exactly
\* one row per selected user, all of them new and labeled by the function,
\* leaves the rows of every other task as they were, and returns the number
\* of selected users; apply_cluster_segmentation over no stored users
\* returns 0 and leaves every row as it was.
C25_ReplacesOnlyRowsOfTheTask ==
    /\ (Applied("cluster") /\ fenqu.users = <<>>)
          => fenqu.returned = 0 /\ fenqu.results = fenqu.before
    /\ ((Applied("rule") \/ Applied("rfm") \/ Applied("cluster"))
            /\ ~(fenqu.call.fn = "cluster" /\ fenqu.users = <<>>))
          => LET mine == RowsOfTask(fenqu.results, fenqu.call.task)
             IN  /\ \A u \in fenqu.selected :
                       Cardinality({r \in mine : r.user = u}) = 1
                 /\ \A r \in mine :
                       /\ r.user \in fenqu.selected
                       /\ r.segment_label = fenqu.call.fn
                       /\ r.id \notin IdsOf(fenqu.before)
                 /\ fenqu.results \ mine = fenqu.before
                       \ RowsOfTask(fenqu.before, fenqu.call.task)
                 /\ fenqu.returned = Cardinality(fenqu.selected)
                 /\ fenqu.selected =
                       IF fenqu.call.fn = "rule"
                       THEN {u.user_id : u \in
                               {x \in Range(fenqu.users) :
                                   MatchesRule(x, fenqu.call.filters)}}
                       ELSE {u.user_id : u \in Range(fenqu.users)}

\* A task is segmented again, over two users, while the other task holds
\* rows: the task had rows before the call and the other task has rows.
C25_SecondRunBesideAnotherTask ==
    /\ Applied("rule") \/ Applied("rfm") \/ Applied("cluster")
    /\ Cardinality(fenqu.selected) = 2
    /\ RowsOfTask(fenqu.before, fenqu.call.task) # {}
    /\ fenqu.before \ RowsOfTask(fenqu.before, fenqu.call.task) # {}

====
